---- MODULE Spec2Model ----
(***************************************************************************)
(* tokio-sqlite: the connection worker (ConnectionTask::blocking_run), the *)
(* nested transaction loop (TransactionTask::blocking_run) and the handles *)
(* that talk to them over capacity-1 mpsc queues and oneshot replies.      *)
(*                                                                         *)
(* Each handle method takes &mut self, so a handle has at most one call in *)
(* flight; a call's future may be dropped at its await point               *)
(* (cancellation), which closes the reply receiver.                        *)
(*                                                                         *)
(* Callers come in two disciplines, fixed by `shared` in the initial       *)
(* state.  Through the public types of sqlite.rs (shared = FALSE) a        *)
(* Transaction borrows its Connection and a Rows borrows the Connection or *)
(* Transaction it came from, commit and rollback consume the Transaction:  *)
(* the owner of a borrowed value makes no call while the borrow lives.     *)
(* The handles of connection.rs, transaction.rs and query.rs themselves    *)
(* carry no lifetime, so with shared = TRUE separate tasks use the         *)
(* ConnectionHandle, the TransactionHandle and the QueryHandle at the same *)
(* time (SpecShared; there no call is abandoned).  In both, at most one    *)
(* TransactionHandle and one QueryHandle are held at a time.               *)
(*                                                                         *)
(* The model starts after Connection::open has succeeded: the worker is at *)
(* the first blocking_recv of the connection loop.                         *)
(***************************************************************************)
EXTENDS Integers, Sequences, FiniteSets, TLC

\* Bounds of the model.
MaxWrites == 2      \* successful execute statements (row ids 1..MaxWrites)
MaxTx == 2          \* transaction loops started on the connection

\* mpsc::channel(1) of the connection loop and of the transaction loop.
ConnChannelCap == 1
TxChannelCap == 1
\* mpsc::channel(1) of a query stream.
RowChannelCap == 1

\* The item a stream carries for Err(err); rows are row ids (1, 2, ...).
ErrItem == 0

Ids == 1..MaxWrites

NoCmd == [op |-> "None", live |-> FALSE, seq |-> FALSE]

Cmd(op, live, seq) == [op |-> op, live |-> live, seq |-> seq]

VARIABLES
    connQ,      \* queue of ConnectionCommand (mpsc, capacity 1)
    connRx,     \* the connection loop's mpsc receiver exists
    connPc,     \* connection loop: "recv" | "handle" | "in_tx" | "in_query" | "done"
    connCmd,    \* command the connection loop is handling
    txQ,        \* queue of TransactionCommand of the current transaction loop
    txRx,       \* the transaction loop's mpsc receiver exists
    txPc,       \* transaction loop: "none" | "recv" | "handle" | "in_query" | "exit" | "stuck"
    txCmd,      \* command the transaction loop is handling
    nTx,        \* transaction loops started so far
    db,         \* driver: committed rows
    txw,        \* driver: rows written in the open driver transaction
    inTx,       \* driver: a transaction is open (not autocommit)
    nextId,     \* driver: next auto-generated row id
    conn,       \* caller side of the ConnectionHandle (lid: last_insert_id of the Status it got)
    th,         \* caller side of the TransactionHandle
    sendSeq,    \* history: stamp (alternating) of the next command sent on the connection queue
    recvSeq,    \* history: stamp the connection loop expects on its next receive
    outcome,    \* history: fate of the latest transaction
    hist,       \* history: how each row was written ("abandoned": by an Execute whose
                \* caller had given up) and what became of it
    failed,     \* history: an execute failed in the latest transaction
    qPc,        \* QueryTask loop: "none" | "step" | "send"
    qRem,       \* driver cursor: rows not yet stepped over
    qItem,      \* item the producer is pushing with blocking_send
    rowQ,       \* row channel (mpsc, capacity 1)
    rowTx,      \* the producer's sender of the row channel exists
    rows,       \* caller side of the QueryHandle
    got,        \* history: rows the consumer has received from the open stream
    qAll,       \* history: the full result of the open stream's statement
    qFail,      \* history: the driver failed while the stream was produced
    shared      \* the handles are used by separate tasks (see above)

vars == <<connQ, connRx, connPc, connCmd, txQ, txRx, txPc, txCmd, nTx,
          db, txw, inTx, nextId, conn, th, sendSeq, recvSeq, outcome, hist, failed,
          qPc, qRem, qItem, rowQ, rowTx, rows, got, qAll, qFail, shared>>

driver == <<db, txw, inTx, nextId>>
connLoop == <<connQ, connRx, connPc, connCmd, recvSeq>>
txLoop == <<txQ, txRx, txPc, txCmd, nTx>>
history == <<outcome, hist, failed>>
stream == <<qPc, qRem, qItem, rowQ, rowTx, rows, got, qAll, qFail>>

NoRows == [st |-> "none", last |-> "none"]

\* Option<i64>: Some(x) and None.
Some(x) == <<x>>
None == <<>>

NoHandle == [st |-> "none", res |-> "none", req |-> FALSE, lid |-> None]

Start ==
    /\ connQ = <<>>
    /\ connRx = TRUE
    /\ connPc = "recv"
    /\ connCmd = NoCmd
    /\ txQ = <<>>
    /\ txRx = FALSE
    /\ txPc = "none"
    /\ txCmd = NoCmd
    /\ nTx = 0
    /\ db = {}
    /\ txw = {}
    /\ inTx = FALSE
    /\ nextId = 1
    /\ conn = [st |-> "idle", res |-> "none", lid |-> None]
    /\ th = NoHandle
    /\ sendSeq = FALSE
    /\ recvSeq = FALSE
    /\ outcome = "none"
    /\ hist = [i \in Ids |-> "free"]
    /\ failed = FALSE
    /\ qPc = "none"
    /\ qRem = <<>>
    /\ qItem = ErrItem
    /\ rowQ = <<>>
    /\ rowTx = FALSE
    /\ rows = NoRows
    /\ got = <<>>
    /\ qAll = <<>>
    /\ qFail = FALSE

Init == Start /\ shared = FALSE

InitShared == Start /\ shared = TRUE

----------------------------------------------------------------------------
\* Helpers.

\* Dropping a call's future drops its oneshot receiver: the command it sent,
\* wherever it is, can no longer deliver its reply.
Orphan(c) == [c EXCEPT !.live = FALSE]
OrphanAll(q) == [i \in 1..Len(q) |-> Orphan(q[i])]

\* `let _ = cmd.tx.send(result)` towards the connection handle: the pending
\* call completes with the result, or the reply is discarded.
ConnReply(c, cmd, res) ==
    IF cmd.live THEN [c EXCEPT !.st = "idle", !.res = res] ELSE c

\* `let _ = tx.send(result)` towards the transaction handle: a pending call
\* completes, a pending destruction (Drop waiting in rollback()) returns.
TxReply(t, cmd, res) ==
    IF cmd.live
    THEN [t EXCEPT !.st = IF @ \in {"dropwait", "wdrop"} THEN "gone" ELSE "idle",
                   !.res = res]
    ELSE t

\* `rx.await.unwrap()` on a reply channel whose sender was dropped unsent.
TxPanic(t, q) ==
    IF \E i \in 1..Len(q) : q[i].live
    THEN [t EXCEPT !.st = "panic"]
    ELSE t

\* conn.execute / transaction.execute on the driver: a statement that inserts
\* adds one row with the next auto-generated id; one that fails, or that runs
\* without inserting (CREATE TABLE, an UPDATE), leaves the rows as they are.
DriverExecute(ins) ==
    IF ins
    THEN /\ nextId <= MaxWrites
         /\ IF inTx
            THEN txw' = txw \cup {nextId} /\ db' = db
            ELSE db' = db \cup {nextId} /\ txw' = txw
         /\ nextId' = nextId + 1
         /\ UNCHANGED inTx
    ELSE UNCHANGED driver

\* conn.last_insert_rowid(): the id of the latest insert on the connection, 0
\* before the first.
last_insert_rowid == nextId - 1

\* The reply to an Execute command: Ok(Status { rows_affected, last_insert_id })
\* or Err; the caller keeps the Status's last_insert_id.
ExecuteReply(h, cmd, ok, lid) ==
    IF cmd.live
    THEN [h EXCEPT !.st = "idle",
                   !.res = IF ok THEN "ok" ELSE "err",
                   !.lid = IF ok THEN lid ELSE None]
    ELSE h

\* A statement that sees committed rows only.
Visible_committed == db

\* What a statement run now sees: inside the open driver transaction, its own
\* uncommitted rows too.
Visible == IF inTx THEN db \cup txw ELSE db

Min(S) == CHOOSE x \in S : \A y \in S : x <= y

\* The driver's result order (ORDER BY the key).
RECURSIVE SortedSeq(_)
SortedSeq(S) == IF S = {} THEN <<>> ELSE <<Min(S)>> \o SortedSeq(S \ {Min(S)})

\* A query() call is waiting for its reply.
PendingQuery ==
    \/ \E i \in 1..Len(connQ) : connQ[i].op = "Query" /\ connQ[i].live
    \/ connCmd.op = "Query" /\ connCmd.live
    \/ \E i \in 1..Len(txQ) : txQ[i].op = "Query" /\ txQ[i].live
    \/ txCmd.op = "Query" /\ txCmd.live

\* A query is requested only when no earlier stream is still held.
NoRowsHeld == rows.st # "open" /\ ~PendingQuery

\* A caller holds the TransactionHandle (it is not held once destroyed, nor
\* when it is being destroyed on the worker thread).
TxHeld == th.st \in {"idle", "wait", "dropwait"}

\* The Connection is free of borrows: no Transaction and no Rows lives, and no
\* panic is unwinding its owner.
ConnFree == shared \/ (~TxHeld /\ th.st # "panic" /\ rows.st # "open")

\* The Transaction is free of borrows and has not been consumed.
TxFree == shared \/ (rows.st # "open" /\ ~th.req)

\* Transaction commands sent and not yet turned into a loop.
PendingTx ==
    Cardinality({i \in 1..Len(connQ) : connQ[i].op = "Transaction"})
        + (IF connCmd.op = "Transaction" THEN 1 ELSE 0)

----------------------------------------------------------------------------
\* ConnectionHandle (caller side).

\* A send that does not wait for room in the queue.
ConnectionHandle_send_unbounded(op) ==
    /\ conn.st = "idle"
    /\ ConnFree
    /\ IF connRx
       THEN /\ connQ' = Append(connQ, Cmd(op, TRUE, sendSeq))
            /\ sendSeq' = ~sendSeq
            /\ conn' = [conn EXCEPT !.st = "wait", !.res = "none", !.lid = None]
       ELSE /\ conn' = [conn EXCEPT !.res = "unavail", !.lid = None]
            /\ UNCHANGED <<connQ, sendSeq>>
    /\ UNCHANGED <<connRx, connPc, connCmd, recvSeq, txLoop, driver, th, history, stream, shared>>

ConnectionHandle_send(op) ==
    /\ conn.st = "idle"
    /\ ConnFree
    /\ IF connRx
       THEN /\ Len(connQ) < ConnChannelCap
            /\ connQ' = Append(connQ, Cmd(op, TRUE, sendSeq))
            /\ sendSeq' = ~sendSeq
            /\ conn' = [conn EXCEPT !.st = "wait", !.res = "none", !.lid = None]
       ELSE /\ conn' = [conn EXCEPT !.res = "unavail", !.lid = None]
            /\ UNCHANGED <<connQ, sendSeq>>
    /\ UNCHANGED <<connRx, connPc, connCmd, recvSeq, txLoop, driver, th, history, stream, shared>>

ConnectionHandle_transaction ==
    /\ nTx + PendingTx < MaxTx
    /\ ~TxHeld
    /\ ConnectionHandle_send("Transaction")

ConnectionHandle_execute == ConnectionHandle_send("Execute")

ConnectionHandle_query ==
    /\ NoRowsHeld
    /\ ConnectionHandle_send("Query")

\* The future of a pending call is dropped at `rx.await`.
ConnectionHandle_cancel ==
    /\ conn.st = "wait"
    /\ conn' = [conn EXCEPT !.st = "idle", !.res = "none", !.lid = None]
    /\ connQ' = OrphanAll(connQ)
    /\ connCmd' = Orphan(connCmd)
    /\ UNCHANGED <<connRx, connPc, recvSeq, txLoop, driver, th, sendSeq, history, stream, shared>>

\* Drop for ConnectionHandle: send Shutdown (the result is ignored), inside
\* Drop for Connection, which then joins the worker.
ConnectionHandle_drop ==
    /\ conn.st = "idle"
    /\ shared \/ (~TxHeld /\ rows.st # "open")
    /\ IF connRx
       THEN /\ Len(connQ) < ConnChannelCap
            /\ connQ' = Append(connQ, Cmd("Shutdown", FALSE, sendSeq))
            /\ sendSeq' = ~sendSeq
       ELSE UNCHANGED <<connQ, sendSeq>>
    /\ conn' = [conn EXCEPT !.st = "joining", !.res = "none", !.lid = None]
    /\ UNCHANGED <<connRx, connPc, connCmd, recvSeq, txLoop, driver, th, history, stream, shared>>

\* A Drop that does not join the worker.
Connection_drop_nojoin ==
    /\ conn.st = "joining"
    /\ conn' = [conn EXCEPT !.st = "dropped"]
    /\ UNCHANGED <<connLoop, txLoop, driver, th, sendSeq, history, stream, shared>>

Connection_drop ==
    /\ conn.st = "joining"
    /\ connPc = "done"
    /\ conn' = [conn EXCEPT !.st = "dropped"]
    /\ UNCHANGED <<connLoop, txLoop, driver, th, sendSeq, history, stream, shared>>

----------------------------------------------------------------------------
\* TransactionHandle (caller side).

Resolving(op) == op \in {"Commit", "Rollback"}

TransactionHandle_send(op, waiting) ==
    IF txRx
    THEN /\ Len(txQ) < TxChannelCap
         /\ txQ' = Append(txQ, Cmd(op, TRUE, FALSE))
         /\ th' = [th EXCEPT !.st = waiting,
                             !.res = "none",
                             !.lid = None,
                             !.req = @ \/ (waiting = "wait" /\ Resolving(op))]
    ELSE /\ th' = [th EXCEPT !.st = IF waiting = "dropwait" THEN "gone" ELSE "idle",
                             !.res = "unavail",
                             !.lid = None,
                             !.req = @ \/ (waiting = "wait" /\ Resolving(op))]
         /\ UNCHANGED txQ

TransactionHandle_call(op) ==
    /\ th.st = "idle"
    /\ TxFree
    /\ TransactionHandle_send(op, "wait")
    /\ UNCHANGED <<connLoop, txRx, txPc, txCmd, nTx, driver, conn, sendSeq, history, stream, shared>>

TransactionHandle_commit == TransactionHandle_call("Commit")
TransactionHandle_rollback == TransactionHandle_call("Rollback")
TransactionHandle_execute == TransactionHandle_call("Execute")

TransactionHandle_query ==
    /\ NoRowsHeld
    /\ TransactionHandle_call("Query")

TransactionHandle_cancel ==
    /\ th.st = "wait"
    /\ th' = [th EXCEPT !.st = "idle", !.res = "none", !.lid = None]
    /\ txQ' = OrphanAll(txQ)
    /\ txCmd' = Orphan(txCmd)
    /\ UNCHANGED <<connLoop, txRx, txPc, nTx, driver, conn, sendSeq, history, stream, shared>>

\* A Drop that sends Rollback and returns without waiting for the reply.
TransactionHandle_drop_nowait ==
    /\ th.st = "idle"
    /\ shared \/ rows.st # "open"
    /\ IF txRx
       THEN Len(txQ) < TxChannelCap /\ txQ' = Append(txQ, Cmd("Rollback", FALSE, FALSE))
       ELSE UNCHANGED txQ
    /\ th' = [th EXCEPT !.st = "gone", !.res = "ok"]
    /\ UNCHANGED <<connLoop, txRx, txPc, txCmd, nTx, driver, conn, sendSeq, history, stream, shared>>

\* Drop for TransactionHandle: block_on(self.rollback()), result ignored.
TransactionHandle_drop ==
    /\ th.st = "idle"
    /\ shared \/ rows.st # "open"
    /\ TransactionHandle_send("Rollback", "dropwait")
    /\ UNCHANGED <<connLoop, txRx, txPc, txCmd, nTx, driver, conn, sendSeq, history, stream, shared>>

----------------------------------------------------------------------------
\* ConnectionTask::blocking_run (worker thread).

\* The loop polling its queue although the nested loop has not returned.
ConnectionTask_recv_unsuspended ==
    /\ connPc \in {"recv", "in_tx"}
    /\ connQ # <<>>
    /\ connCmd' = Head(connQ)
    /\ connQ' = Tail(connQ)
    /\ recvSeq' = ~recvSeq
    /\ connPc' = "handle"
    /\ UNCHANGED <<connRx, txLoop, driver, conn, th, sendSeq, history, stream, shared>>

ConnectionTask_recv ==
    /\ connPc = "recv"
    /\ connQ # <<>>
    /\ connCmd' = Head(connQ)
    /\ connQ' = Tail(connQ)
    /\ recvSeq' = ~recvSeq
    /\ connPc' = "handle"
    /\ UNCHANGED <<connRx, txLoop, driver, conn, th, sendSeq, history, stream, shared>>

\* An Execute arm that ends the loop when nobody listens to the reply.
ConnectionTask_Execute_stop ==
    /\ connPc = "handle"
    /\ connCmd.op = "Execute"
    /\ \E ok \in BOOLEAN : \E ins \in {i \in BOOLEAN : i => ok} :
        /\ DriverExecute(ins)
        /\ conn' = ExecuteReply(conn, connCmd, ok, Some(last_insert_rowid'))
        /\ hist' = IF ins
                   THEN [hist EXCEPT ![nextId] = IF connCmd.live THEN "auto" ELSE "abandoned"]
                   ELSE hist
    /\ connPc' = IF connCmd.live THEN "recv" ELSE "done"
    /\ connRx' = connCmd.live
    /\ connCmd' = NoCmd
    /\ UNCHANGED <<connQ, recvSeq, txLoop, th, sendSeq, outcome, failed, stream, shared>>

ConnectionTask_Execute ==
    /\ connPc = "handle"
    /\ connCmd.op = "Execute"
    /\ \E ok \in BOOLEAN : \E ins \in {i \in BOOLEAN : i => ok} :
        /\ DriverExecute(ins)
        /\ conn' = ExecuteReply(conn, connCmd, ok, Some(last_insert_rowid'))
        /\ hist' = IF ins
                   THEN [hist EXCEPT ![nextId] = IF connCmd.live THEN "auto" ELSE "abandoned"]
                   ELSE hist
    /\ connPc' = "recv"
    /\ connCmd' = NoCmd
    /\ UNCHANGED <<connQ, connRx, recvSeq, txLoop, th, sendSeq, outcome, failed, stream, shared>>

ConnectionTask_Shutdown ==
    /\ connPc = "handle"
    /\ connCmd.op = "Shutdown"
    /\ connPc' = "done"
    /\ connCmd' = NoCmd
    /\ connRx' = FALSE
    /\ connQ' = <<>>
    /\ UNCHANGED <<recvSeq, txLoop, driver, conn, th, sendSeq, history, stream, shared>>

\* QueryTask::blocking_run up to its loop, after the statement was prepared
\* and bound: the caller gets the QueryHandle and the cursor is at the start.
QueryTask_open ==
    /\ qPc' = "step"
    /\ qRem' = SortedSeq(Visible)
    /\ qAll' = SortedSeq(Visible)
    /\ qItem' = ErrItem
    /\ rowQ' = <<>>
    /\ rowTx' = TRUE
    /\ rows' = [st |-> "open", last |-> "none"]
    /\ got' = <<>>
    /\ qFail' = FALSE

\* The Query arm: prepare (an error is replied, `continue`), then
\* QueryTask::blocking_run (a bind error is replied, a reply nobody listens
\* to ends the task).
ConnectionTask_Query ==
    /\ connPc = "handle"
    /\ connCmd.op = "Query"
    /\ \E r \in {"prepare_err", "query_err", "ok"} :
        /\ conn' = ConnReply(conn, connCmd, IF r = "ok" THEN "ok" ELSE "err")
        /\ IF r = "ok" /\ connCmd.live
           THEN QueryTask_open /\ connPc' = "in_query"
           ELSE UNCHANGED stream /\ connPc' = "recv"
    /\ connCmd' = NoCmd
    /\ UNCHANGED <<connQ, connRx, recvSeq, txLoop, driver, th, sendSeq, history, shared>>

\* The Transaction arm: TransactionTask::blocking_run up to its loop.  The
\* connection loop is at `nested` until the nested call returns.
TransactionTask_start(nested) ==
    /\ connPc = "handle"
    /\ connCmd.op = "Transaction"
    /\ \/ \* transaction_with_behavior fails: reply the error and return
          /\ conn' = ConnReply(conn, connCmd, "err")
          /\ connPc' = "recv"
          /\ UNCHANGED <<txLoop, driver, th, history, stream, shared>>
       \/ /\ nTx' = nTx + 1
          /\ txRx' = TRUE
          /\ txCmd' = NoCmd
          /\ inTx' = TRUE
          /\ UNCHANGED <<db, txw, nextId, hist>>
          /\ outcome' = "active"
          /\ failed' = FALSE
          /\ connPc' = nested
          /\ conn' = ConnReply(conn, connCmd, "ok")
          /\ IF connCmd.live
             THEN \* the caller now owns TransactionHandle(tx)
                  /\ th' = [NoHandle EXCEPT !.st = "idle"]
                  /\ txQ' = <<>>
                  /\ txPc' = "recv"
             ELSE \* handle_rx.send returns the handle, which is dropped on the
                  \* worker thread: its Drop sends Rollback and waits for a
                  \* reply that only this thread could send
                  /\ th' = [NoHandle EXCEPT !.st = "wdrop"]
                  /\ txQ' = <<Cmd("Rollback", TRUE, FALSE)>>
                  /\ txPc' = "stuck"
    /\ connCmd' = NoCmd
    /\ UNCHANGED <<connQ, connRx, recvSeq, sendSeq, stream, shared>>

\* The transaction loop started beside the connection loop, not inside it.
ConnectionTask_Transaction_spawned == TransactionTask_start("recv")

ConnectionTask_Transaction == TransactionTask_start("in_tx")

----------------------------------------------------------------------------
\* TransactionTask::blocking_run, the loop.

Resolve(h, to) == [i \in Ids |-> IF h[i] = "active" THEN to ELSE h[i]]

\* A loop that polls its queue once more after the Commit or Rollback arm.
TransactionTask_recv_after_exit ==
    /\ txPc \in {"recv", "exit"}
    /\ txQ # <<>>
    /\ txCmd' = Head(txQ)
    /\ txQ' = Tail(txQ)
    /\ txPc' = "handle"
    /\ UNCHANGED <<connLoop, txRx, nTx, driver, conn, th, sendSeq, history, stream, shared>>

TransactionTask_recv ==
    /\ txPc = "recv"
    /\ txQ # <<>>
    /\ txCmd' = Head(txQ)
    /\ txQ' = Tail(txQ)
    /\ txPc' = "handle"
    /\ UNCHANGED <<connLoop, txRx, nTx, driver, conn, th, sendSeq, history, stream, shared>>

\* A Commit arm without its `return`.
TransactionTask_Commit_stay ==
    /\ txPc = "handle"
    /\ txCmd.op = "Commit"
    /\ \E ok \in BOOLEAN :
        /\ db' = IF ok THEN db \cup txw ELSE db
        /\ th' = TxReply(th, txCmd, IF ok THEN "ok" ELSE "err")
        /\ outcome' = IF ok THEN "committed" ELSE "rolledback"
        /\ hist' = Resolve(hist, IF ok THEN "committed" ELSE "rolledback")
    /\ txw' = {}
    /\ inTx' = FALSE
    /\ txPc' = "recv"
    /\ txCmd' = NoCmd
    /\ UNCHANGED <<connLoop, txQ, txRx, nTx, nextId, conn, sendSeq, failed, stream, shared>>

\* transaction.commit(): on failure the driver transaction is dropped, which
\* rolls it back.
TransactionTask_Commit ==
    /\ txPc = "handle"
    /\ txCmd.op = "Commit"
    /\ \E ok \in BOOLEAN :
        /\ db' = IF ok THEN db \cup txw ELSE db
        /\ th' = TxReply(th, txCmd, IF ok THEN "ok" ELSE "err")
        /\ outcome' = IF ok THEN "committed" ELSE "rolledback"
        /\ hist' = Resolve(hist, IF ok THEN "committed" ELSE "rolledback")
    /\ txw' = {}
    /\ inTx' = FALSE
    /\ txPc' = "exit"
    /\ txCmd' = NoCmd
    /\ UNCHANGED <<connLoop, txQ, txRx, nTx, nextId, conn, sendSeq, failed, stream, shared>>

\* A Rollback arm without its `return`.
TransactionTask_Rollback_stay ==
    /\ txPc = "handle"
    /\ txCmd.op = "Rollback"
    /\ \E ok \in BOOLEAN :
        th' = TxReply(th, txCmd, IF ok THEN "ok" ELSE "err")
    /\ outcome' = "rolledback"
    /\ hist' = Resolve(hist, "rolledback")
    /\ txw' = {}
    /\ inTx' = FALSE
    /\ txPc' = "recv"
    /\ txCmd' = NoCmd
    /\ UNCHANGED <<connLoop, txQ, txRx, nTx, db, nextId, conn, sendSeq, failed, stream, shared>>

\* A Rollback arm that commits.
TransactionTask_Rollback_keeps ==
    /\ txPc = "handle"
    /\ txCmd.op = "Rollback"
    /\ \E ok \in BOOLEAN :
        th' = TxReply(th, txCmd, IF ok THEN "ok" ELSE "err")
    /\ outcome' = "rolledback"
    /\ hist' = Resolve(hist, "rolledback")
    /\ db' = db \cup txw
    /\ txw' = {}
    /\ inTx' = FALSE
    /\ txPc' = "exit"
    /\ txCmd' = NoCmd
    /\ UNCHANGED <<connLoop, txQ, txRx, nTx, nextId, conn, sendSeq, failed, stream, shared>>

TransactionTask_Rollback ==
    /\ txPc = "handle"
    /\ txCmd.op = "Rollback"
    /\ \E ok \in BOOLEAN :
        th' = TxReply(th, txCmd, IF ok THEN "ok" ELSE "err")
    /\ outcome' = "rolledback"
    /\ hist' = Resolve(hist, "rolledback")
    /\ txw' = {}
    /\ inTx' = FALSE
    /\ txPc' = "exit"
    /\ txCmd' = NoCmd
    /\ UNCHANGED <<connLoop, txQ, txRx, nTx, db, nextId, conn, sendSeq, failed, stream, shared>>

\* An Execute arm that gives the transaction up when the statement fails.
TransactionTask_Execute_abort ==
    /\ txPc = "handle"
    /\ txCmd.op = "Execute"
    /\ \E ok \in BOOLEAN : \E ins \in {i \in BOOLEAN : i => ok} :
        /\ failed' = (failed \/ ~ok)
        /\ IF ok
           THEN /\ DriverExecute(ins)
                /\ th' = ExecuteReply(th, txCmd, TRUE, Some(last_insert_rowid'))
                /\ hist' = IF ins THEN [hist EXCEPT ![nextId] = "active"] ELSE hist
                /\ txPc' = "recv"
                /\ UNCHANGED outcome
           ELSE /\ th' = ExecuteReply(th, txCmd, FALSE, None)
                /\ txw' = {}
                /\ inTx' = FALSE
                /\ hist' = Resolve(hist, "rolledback")
                /\ outcome' = "rolledback"
                /\ txPc' = "exit"
                /\ UNCHANGED <<db, nextId>>
    /\ txCmd' = NoCmd
    /\ UNCHANGED <<connLoop, txQ, txRx, nTx, conn, sendSeq, stream, shared>>

TransactionTask_Execute ==
    /\ txPc = "handle"
    /\ txCmd.op = "Execute"
    /\ \E ok \in BOOLEAN : \E ins \in {i \in BOOLEAN : i => ok} :
        /\ DriverExecute(ins)
        /\ th' = ExecuteReply(th, txCmd, ok, Some(last_insert_rowid'))
        /\ hist' = IF ins THEN [hist EXCEPT ![nextId] = "active"] ELSE hist
        /\ failed' = (failed \/ ~ok)
    /\ txPc' = "recv"
    /\ txCmd' = NoCmd
    /\ UNCHANGED <<connLoop, txQ, txRx, nTx, conn, sendSeq, outcome, stream, shared>>

\* A Query arm that leaves the loop when the statement cannot be prepared.
TransactionTask_Query_abort ==
    /\ txPc = "handle"
    /\ txCmd.op = "Query"
    /\ \E r \in {"prepare_err", "query_err", "ok"} :
        /\ th' = TxReply(th, txCmd, IF r = "ok" THEN "ok" ELSE "err")
        /\ IF r = "ok" /\ txCmd.live
           THEN QueryTask_open /\ txPc' = "in_query"
           ELSE UNCHANGED stream /\ txPc' = IF r = "prepare_err" THEN "exit" ELSE "recv"
    /\ txCmd' = NoCmd
    /\ UNCHANGED <<connLoop, txQ, txRx, nTx, driver, conn, sendSeq, history, shared>>

TransactionTask_Query ==
    /\ txPc = "handle"
    /\ txCmd.op = "Query"
    /\ \E r \in {"prepare_err", "query_err", "ok"} :
        /\ th' = TxReply(th, txCmd, IF r = "ok" THEN "ok" ELSE "err")
        /\ IF r = "ok" /\ txCmd.live
           THEN QueryTask_open /\ txPc' = "in_query"
           ELSE UNCHANGED stream /\ txPc' = "recv"
    /\ txCmd' = NoCmd
    /\ UNCHANGED <<connLoop, txQ, txRx, nTx, driver, conn, sendSeq, history, shared>>

\* `return` out of the loop: rx is dropped, which closes the channel and
\* drops what is queued (and with it the queued reply senders); the
\* connection loop continues.
TransactionTask_return ==
    /\ txPc = "exit"
    /\ txRx' = FALSE
    /\ th' = TxPanic(th, txQ)
    /\ txQ' = <<>>
    /\ txPc' = "none"
    /\ connPc' = "recv"
    /\ UNCHANGED <<connQ, connRx, connCmd, recvSeq, txCmd, nTx,
                   driver, conn, sendSeq, history, stream, shared>>

----------------------------------------------------------------------------
\* QueryTask::blocking_run, the loop, run by whichever loop got the Query.

\* `return`: the row sender is dropped and the calling loop goes on.
QueryTask_return ==
    /\ qPc' = "none"
    /\ rowTx' = FALSE
    /\ qRem' = <<>>
    /\ qItem' = ErrItem
    /\ IF txPc = "in_query"
       THEN txPc' = "recv" /\ UNCHANGED connPc
       ELSE connPc' = "recv" /\ UNCHANGED txPc

\* A producer that returns on a driver error without sending it.
QueryTask_next_silent ==
    /\ qPc = "step"
    /\ \/ /\ qRem = <<>>
          /\ QueryTask_return
          /\ UNCHANGED <<rowQ, qFail>>
       \/ /\ qRem # <<>>
          /\ qItem' = Head(qRem)
          /\ qRem' = Tail(qRem)
          /\ qPc' = "send"
          /\ UNCHANGED <<rowQ, rowTx, qFail, connPc, txPc>>
       \/ /\ qFail' = TRUE
          /\ QueryTask_return
          /\ UNCHANGED rowQ
    /\ UNCHANGED <<connQ, connRx, connCmd, recvSeq, txQ, txRx, txCmd, nTx, driver,
                   conn, th, sendSeq, history, rows, got, qAll, shared>>

\* rows.next() and the decoding of the row's columns.
QueryTask_next ==
    /\ qPc = "step"
    /\ \/ \* Ok(None)
          /\ qRem = <<>>
          /\ QueryTask_return
          /\ UNCHANGED <<rowQ, qFail>>
       \/ \* Ok(Some(row)), every column decoded
          /\ qRem # <<>>
          /\ qItem' = Head(qRem)
          /\ qRem' = Tail(qRem)
          /\ qPc' = "send"
          /\ UNCHANGED <<rowQ, rowTx, qFail, connPc, txPc>>
       \/ \* Err(err) from rows.next() or from row.get(i)
          /\ qItem' = ErrItem
          /\ qFail' = TRUE
          /\ qPc' = "send"
          /\ UNCHANGED <<qRem, rowQ, rowTx, connPc, txPc>>
    /\ UNCHANGED <<connQ, connRx, connCmd, recvSeq, txQ, txRx, txCmd, nTx, driver,
                   conn, th, sendSeq, history, rows, got, qAll, shared>>

\* A send that does not wait for room in the row channel.
QueryTask_send_unbounded ==
    /\ qPc = "send"
    /\ IF rows.st # "open"
       THEN QueryTask_return /\ UNCHANGED rowQ
       ELSE /\ rowQ' = Append(rowQ, qItem)
            /\ IF qItem = ErrItem
               THEN QueryTask_return
               ELSE /\ qPc' = "step"
                    /\ qItem' = ErrItem
                    /\ UNCHANGED <<qRem, rowTx, connPc, txPc>>
    /\ UNCHANGED <<connQ, connRx, connCmd, recvSeq, txQ, txRx, txCmd, nTx, driver,
                   conn, th, sendSeq, history, rows, got, qAll, qFail, shared>>

\* A send that goes on waiting for room after the receiver is gone.
QueryTask_send_blocked ==
    /\ qPc = "send"
    /\ rows.st = "open"
    /\ Len(rowQ) < RowChannelCap
    /\ rowQ' = Append(rowQ, qItem)
    /\ IF qItem = ErrItem
       THEN QueryTask_return
       ELSE /\ qPc' = "step"
            /\ qItem' = ErrItem
            /\ UNCHANGED <<qRem, rowTx, connPc, txPc>>
    /\ UNCHANGED <<connQ, connRx, connCmd, recvSeq, txQ, txRx, txCmd, nTx, driver,
                   conn, th, sendSeq, history, rows, got, qAll, qFail, shared>>

\* tx.blocking_send(item): waits for room, fails once the receiver is gone.
QueryTask_send ==
    /\ qPc = "send"
    /\ IF rows.st # "open"
       THEN QueryTask_return /\ UNCHANGED rowQ
       ELSE /\ Len(rowQ) < RowChannelCap
            /\ rowQ' = Append(rowQ, qItem)
            /\ IF qItem = ErrItem
               THEN QueryTask_return
               ELSE /\ qPc' = "step"
                    /\ qItem' = ErrItem
                    /\ UNCHANGED <<qRem, rowTx, connPc, txPc>>
    /\ UNCHANGED <<connQ, connRx, connCmd, recvSeq, txQ, txRx, txCmd, nTx, driver,
                   conn, th, sendSeq, history, rows, got, qAll, qFail, shared>>

\* A next() that reports end-of-stream whenever no item is ready.
QueryHandle_next_nowait ==
    /\ rows.st = "open"
    /\ IF rowQ # <<>>
       THEN /\ rowQ' = Tail(rowQ)
            /\ rows' = [rows EXCEPT !.last = IF Head(rowQ) = ErrItem THEN "err" ELSE "row"]
            /\ got' = IF Head(rowQ) = ErrItem THEN got ELSE Append(got, Head(rowQ))
       ELSE /\ rows' = [rows EXCEPT !.last = "end"]
            /\ UNCHANGED <<rowQ, got>>
    /\ UNCHANGED <<connLoop, txLoop, driver, conn, th, sendSeq, history,
                   qPc, qRem, qItem, rowTx, qAll, qFail, shared>>

\* QueryHandle::next: self.rx.recv().await
QueryHandle_next ==
    /\ rows.st = "open"
    /\ IF rowQ # <<>>
       THEN /\ rowQ' = Tail(rowQ)
            /\ rows' = [rows EXCEPT !.last = IF Head(rowQ) = ErrItem THEN "err" ELSE "row"]
            /\ got' = IF Head(rowQ) = ErrItem THEN got ELSE Append(got, Head(rowQ))
       ELSE /\ ~rowTx
            /\ rows' = [rows EXCEPT !.last = "end"]
            /\ UNCHANGED <<rowQ, got>>
    /\ UNCHANGED <<connLoop, txLoop, driver, conn, th, sendSeq, history,
                   qPc, qRem, qItem, rowTx, qAll, qFail, shared>>

\* The QueryHandle is dropped: the row receiver closes.
QueryHandle_drop ==
    /\ rows.st = "open"
    /\ rows' = NoRows
    /\ rowQ' = <<>>
    /\ got' = <<>>
    /\ qAll' = <<>>
    /\ qFail' = FALSE
    /\ UNCHANGED <<connLoop, txLoop, driver, conn, th, sendSeq, history,
                   qPc, qRem, qItem, rowTx, shared>>

----------------------------------------------------------------------------
\* Connection::query_row and Transaction::query_row (sqlite.rs), on the
\* items the stream of their query yields to next(): the first next() decides
\* between Ok(None), the stream's error and a row; any second item, a row or
\* an error, makes the result Err(Error::QueryReturnedNoRows).
query_row(items) ==
    IF items = <<>> THEN "Ok(None)"
    ELSE IF items[1] = ErrItem THEN "Err(err)"
    ELSE IF Len(items) > 1 THEN "Err(QueryReturnedNoRows)"
    ELSE "Ok(Some(row))"

----------------------------------------------------------------------------

Next ==
    \/ ConnectionHandle_transaction
    \/ ConnectionHandle_execute
    \/ ConnectionHandle_query
    \/ ConnectionHandle_cancel
    \/ ConnectionHandle_drop
    \/ Connection_drop
    \/ TransactionHandle_commit
    \/ TransactionHandle_rollback
    \/ TransactionHandle_execute
    \/ TransactionHandle_query
    \/ TransactionHandle_cancel
    \/ TransactionHandle_drop
    \/ ConnectionTask_recv
    \/ ConnectionTask_Execute
    \/ ConnectionTask_Query
    \/ ConnectionTask_Shutdown
    \/ ConnectionTask_Transaction
    \/ TransactionTask_recv
    \/ TransactionTask_Commit
    \/ TransactionTask_Rollback
    \/ TransactionTask_Execute
    \/ TransactionTask_Query
    \/ TransactionTask_return
    \/ QueryTask_next
    \/ QueryTask_send
    \/ QueryHandle_next
    \/ QueryHandle_drop

Spec == Init /\ [][Next]_vars

\* The steps of the worker thread (tokio::task::spawn_blocking in
\* Connection::open): the two loops and the stream producer they call.
WorkerStep ==
    \/ ConnectionTask_recv
    \/ ConnectionTask_Execute
    \/ ConnectionTask_Query
    \/ ConnectionTask_Shutdown
    \/ ConnectionTask_Transaction
    \/ TransactionTask_recv
    \/ TransactionTask_Commit
    \/ TransactionTask_Rollback
    \/ TransactionTask_Execute
    \/ TransactionTask_Query
    \/ TransactionTask_return
    \/ QueryTask_next
    \/ QueryTask_send

\* The worker is a thread of its own: it runs whenever it is not blocked in
\* blocking_recv on an empty queue or in blocking_send on a full channel.
\* Callers are not obliged to do anything.
SpecFair == Init /\ [][Next]_vars /\ WF_vars(WorkerStep)

\* Separate tasks on the handles, none of which abandons a call.
NextShared ==
    \/ ConnectionHandle_transaction
    \/ ConnectionHandle_execute
    \/ ConnectionHandle_query
    \/ ConnectionHandle_drop
    \/ Connection_drop
    \/ TransactionHandle_commit
    \/ TransactionHandle_rollback
    \/ TransactionHandle_execute
    \/ TransactionHandle_query
    \/ TransactionHandle_drop
    \/ ConnectionTask_recv
    \/ ConnectionTask_Execute
    \/ ConnectionTask_Query
    \/ ConnectionTask_Shutdown
    \/ ConnectionTask_Transaction
    \/ TransactionTask_recv
    \/ TransactionTask_Commit
    \/ TransactionTask_Rollback
    \/ TransactionTask_Execute
    \/ TransactionTask_Query
    \/ TransactionTask_return
    \/ QueryTask_next
    \/ QueryTask_send
    \/ QueryHandle_next
    \/ QueryHandle_drop

SpecShared == InitShared /\ [][NextShared]_vars

----------------------------------------------------------------------------
\* Properties.

Processing(pc) == pc \in {"handle", "in_query"}

\* A step that changes the driver is a step of the worker thread: exactly one
\* of the two loops is handling a command and finishes handling it.
DriverStepByWorker ==
    driver' # driver =>
        /\ (connPc = "handle") # (txPc = "handle")
        /\ connPc = "handle" => connPc' # "handle"
        /\ txPc = "handle" => txPc' # "handle"

\* C1: at most one command loop performs driver operations at a time: the
\* connection loop and the nested transaction loop are never both processing
\* a command, and the driver changes only in a step in which one of the two
\* loops (the worker thread) handles a command, never in a caller's step.
C1_OneLoopOnTheDriver ==
    /\ [](~(Processing(connPc) /\ Processing(txPc)))
    /\ [](txPc # "none" => connPc = "in_tx")
    /\ [][DriverStepByWorker]_vars

\* C1 witness: the transaction loop streams a query while a command sent on
\* the connection handle waits in the connection queue.
C1_Witness ==
    txPc = "in_query" /\ connPc = "in_tx" /\ connQ # <<>> /\ inTx

ConnectionLoopIdle ==
    txPc \in {"recv", "handle", "in_query", "stuck"} =>
        /\ recvSeq' = recvSeq
        /\ connCmd = NoCmd /\ connCmd' = NoCmd
        /\ Len(connQ') >= Len(connQ)

\* C2: while a transaction loop runs (from its start until it has replied to
\* commit or rollback) the worker receives nothing from the connection queue:
\* no command leaves the queue, none is being handled by the connection loop.
C2_ConnectionQueueSuspended ==
    [][ConnectionLoopIdle]_vars

\* C2 witness: an Execute sent on the connection handle is queued while the
\* transaction has uncommitted writes and its loop waits for a command.
C2_Witness ==
    txPc = "recv" /\ txw # {} /\ connQ # <<>> /\ Head(connQ).op = "Execute"

Resolved == outcome \in {"committed", "rolledback"}

Range(q) == {q[k] : k \in 1..Len(q)}

\* C3: a transaction handle destroyed without commit or rollback having been
\* requested: once the destruction has returned it has had the actor's reply
\* to its Rollback, the driver transaction is rolled back and closed, and
\* none of its writes is in the database or in the result of a follow-up
\* query.
C3_DropRollsBack ==
    (th.st = "gone" /\ ~th.req) =>
        /\ th.res \in {"ok", "err"}
        /\ outcome = "rolledback"
        /\ ~inTx /\ txw = {}
        /\ \A i \in Ids : hist[i] # "active" /\ (hist[i] = "rolledback" => i \notin db)
        /\ rows.st = "open" => \A i \in Range(qAll) : hist[i] # "rolledback"

\* C3 witness: after such a destruction of a transaction that had written a
\* row, a follow-up query on the connection has its stream open.
C3_Witness ==
    /\ th.st = "gone" /\ ~th.req
    /\ \E i \in Ids : hist[i] = "rolledback"
    /\ rows.st = "open" /\ connPc = "in_query"

ResolveStep ==
    (txPc = "handle" /\ Resolving(txCmd.op) /\ txPc' # "handle") =>
        /\ txPc' = "exit"
        /\ ~inTx'
        /\ txCmd.live => th'.st \in {"idle", "gone"} /\ th'.res \in {"ok", "err"}

ExitStep ==
    txPc = "exit" =>
        /\ th'.res \in {th.res, "none", "unavail"}
        /\ txPc' = "exit" \/ (txPc' = "none" /\ connPc' = "recv" /\ ~txRx')

\* C4: the step that handles Commit or Rollback replies (a waiting caller gets
\* ok or the error) and leaves the loop, whatever the driver answered; from
\* there the actor sends no second reply, and its next step returns to the
\* connection loop, which is at its blocking_recv again.
C4_ResolveRepliesAndReturns ==
    [][ResolveStep /\ ExitStep]_vars

\* C4 witness: after a transaction committed a row, the connection loop has
\* served a later Execute sent on the connection.
C4_Witness ==
    \E i, j \in Ids : i < j /\ hist[i] = "committed" /\ hist[j] = "auto"

\* C5: every row written in a transaction that committed is in the database
\* and in the result of any query made afterwards; no row written in a
\* transaction that was rolled back is.
C5_CommitVisibleRollbackInvisible ==
    /\ \A i \in Ids : hist[i] = "committed" => i \in db
    /\ \A i \in Ids : hist[i] = "rolledback" => i \notin (db \cup txw)
    /\ rows.st = "open" =>
          \A i \in Ids :
              /\ hist[i] = "committed" => i \in Range(qAll)
              /\ hist[i] = "rolledback" => i \notin Range(qAll)

\* C5 witness: a query on the connection after one transaction committed a
\* row and another was rolled back with a row.
C5_Witness ==
    /\ rows.st = "open" /\ connPc = "in_query"
    /\ \E i \in Ids : hist[i] = "committed"
    /\ \E i \in Ids : hist[i] = "rolledback"

TerminalStep ==
    Resolved =>
        \/ nTx' = nTx + 1 /\ outcome' = "active"
        \/ /\ nTx' = nTx
           /\ outcome' = outcome
           /\ \A i \in Ids : hist[i] \in {"committed", "rolledback"} => hist'[i] = hist[i]
           /\ ~inTx' /\ txw' = {} /\ txCmd' = NoCmd

\* C6: once the actor has processed commit or rollback, the transaction's
\* loop receives and handles nothing more, the outcome and the fate of its
\* rows never change, and the driver has no open transaction until a new
\* transaction is begun.
C6_ResolvedIsTerminal ==
    /\ [](Resolved => txPc \in {"exit", "none"})
    /\ [][TerminalStep]_vars

\* C6 witness: the transaction has committed and a later Rollback addressed
\* to it (sent by the handle's destruction) is in its queue.
C6_Witness ==
    outcome = "committed" /\ txPc = "exit" /\ txQ # <<>> /\ Head(txQ).op = "Rollback"

\* C7: the connection queue never holds more than one command, what it holds
\* carries the stamp of the next command to receive, and the command being
\* handled is the one sent right before.
C7_ConnectionQueueFifo ==
    /\ Len(connQ) <= 1
    /\ connQ # <<>> => Head(connQ).seq = recvSeq
    /\ connPc = "handle" => connCmd.seq = ~recvSeq

\* C7 witness: the loop handles an Execute whose caller gave up while the
\* next command, a Query, waits in the queue.
C7_Witness ==
    /\ connPc = "handle" /\ connCmd.op = "Execute"
    /\ Len(connQ) = 1 /\ Head(connQ).op = "Query"

\* C8: a call on a transaction handle whose loop has exited, or is exiting,
\* completes with the unavailable error: it is never left waiting for a loop
\* that is gone and never ends in a panic.
C8_LateCallIsUnavailable ==
    /\ th.st # "panic"
    /\ th.st \in {"wait", "dropwait"} => txPc # "none"

ShutdownStep ==
    (connCmd.op = "Shutdown" \/ connPc = "done") =>
        /\ driver' = driver
        /\ txPc' = "none" /\ qPc' = "none"
        /\ connPc' \in {"handle", "done"}

\* C9: in every state where the destruction of the connection has returned
\* the worker has exited, and from the moment the worker has received
\* Shutdown it does nothing on the driver and starts no transaction or query.
C9_DropJoinsWorker ==
    /\ [](conn.st = "dropped" => connPc = "done" /\ ~connRx)
    /\ [][ShutdownStep]_vars

\* C9 witness: the destruction has returned after the worker finished a
\* write that was in its queue.
C9_Witness ==
    conn.st = "dropped" /\ connPc = "done" /\ db # {}

FailedExecuteStep ==
    (/\ txPc = "handle" /\ txCmd.op = "Execute" /\ txPc' # "handle"
     /\ IF txCmd.live THEN th'.res = "err" ELSE nextId' = nextId) =>
        /\ txPc' = "recv" /\ txRx'
        /\ inTx' /\ txw' = txw /\ db' = db
        /\ outcome' = "active" /\ hist' = hist
        /\ txCmd.live => th'.st = "idle" /\ th'.res = "err"

\* C10: the step that handles an Execute whose statement fails replies the
\* error and goes back to the loop's blocking_recv: the driver transaction
\* stays open with its writes, neither committed nor rolled back.
C10_FailedExecuteKeepsActive ==
    [][FailedExecuteStep]_vars

\* C10 witness: a transaction in which an execute failed has committed a row.
C10_Witness ==
    failed /\ outcome = "committed" /\ \E i \in Ids : hist[i] = "committed"

FailedQueryStep ==
    /\ (connPc = "handle" /\ connCmd.op = "Query" /\ connPc' \notin {"handle", "in_query"}) =>
          /\ connPc' = "recv" /\ connRx'
          /\ driver' = driver
          /\ rows' = rows
          /\ connCmd.live => conn'.st = "idle" /\ conn'.res = "err"
    /\ (txPc = "handle" /\ txCmd.op = "Query" /\ txPc' \notin {"handle", "in_query"}) =>
          /\ txPc' = "recv" /\ txRx' /\ connPc' = "in_tx"
          /\ driver' = driver /\ inTx'
          /\ outcome' = "active" /\ hist' = hist
          /\ rows' = rows
          /\ txCmd.live => th'.st = "idle" /\ th'.res = "err"

\* C11: the step that handles a Query whose statement cannot be prepared (or
\* bound) replies the error to a waiting caller and puts the loop that
\* handled it back at its blocking_recv with its receiver alive: the
\* connection loop stays the connection loop, the transaction loop stays
\* inside its open driver transaction, whose writes are untouched.
C11_FailedQueryKeepsLoop ==
    [][FailedQueryStep]_vars

\* C11 witness: in a transaction with an uncommitted write, in which no
\* execute failed and neither commit nor rollback was requested, the last
\* call (a query) was answered with an error and the loop waits for the next
\* command.
C11_Witness ==
    /\ th.st = "idle" /\ th.res = "err" /\ ~th.req /\ ~failed
    /\ txPc = "recv" /\ txRx /\ inTx /\ txw # {}

IsPrefix(a, b) == Len(a) <= Len(b) /\ \A k \in 1..Len(a) : a[k] = b[k]

StreamOpen == rows.st = "open" /\ rows'.st = "open"

AfterEndStep ==
    /\ (StreamOpen /\ rows.last = "end") => rows'.last = "end" /\ got' = got
    /\ (StreamOpen /\ got' # got) => Len(got') = Len(got) + 1 /\ rows'.last = "row"

\* C12: the rows a stream has returned are always the first rows of the
\* statement's result in the driver's order, one more with each next() that
\* returns a row; when next() returns end-of-stream on a stream the driver did
\* not fail on, all N rows have been returned; after end-of-stream every
\* next() returns end-of-stream and no row.
C12_RowsInOrderThenEnd ==
    /\ [](rows.st = "open" => IsPrefix(got, qAll))
    /\ []((rows.st = "open" /\ rows.last = "end" /\ ~qFail) => got = qAll)
    /\ [][AfterEndStep]_vars

\* C12 witness: a stream of two rows has returned both and then
\* end-of-stream.
C12_Witness ==
    rows.st = "open" /\ rows.last = "end" /\ ~qFail /\ Len(got) > 1

ErrorLastStep ==
    /\ (StreamOpen /\ qFail /\ rows.last # "end" /\ rows'.last = "end") => rows.last = "err"
    /\ (StreamOpen /\ rows.last = "err") => rows'.last \in {"err", "end"} /\ got' = got
    /\ (qPc = "send" /\ qItem = ErrItem /\ rowQ' # rowQ /\ rowQ' # <<>>) =>
          /\ rowQ' = <<ErrItem>> /\ ~rowTx'
          /\ got \o qRem = qAll

\* C13: when the driver fails while a stream is produced, the error is pushed
\* only after the consumer has taken every row produced before it and is the
\* last item of the channel; the consumer that keeps calling next() gets
\* end-of-stream only right after it got the error, never in its place.
C13_ErrorDeliveredBeforeEnd ==
    /\ []((\E k \in 1..Len(rowQ) : rowQ[k] = ErrItem) => ~rowTx /\ qFail)
    /\ [][ErrorLastStep]_vars

\* C13 witness: of a result of two rows the consumer got the first, then the
\* error, then end-of-stream.
C13_Witness ==
    rows.st = "open" /\ rows.last = "end" /\ qFail /\ Len(got) = 1 /\ Len(qAll) > 1

\* Rows stepped out of the driver that the consumer has not received: those in
\* the channel and the one the producer holds in blocking_send.
Unconsumed ==
    Cardinality({k \in 1..Len(rowQ) : rowQ[k] # ErrItem})
        + (IF qPc = "send" /\ qItem # ErrItem THEN 1 ELSE 0)

\* C14: in every reachable state at most one row has been produced from the
\* driver and not yet consumed.
C14_OneRowAhead ==
    Unconsumed <= 1

\* C14 as amended: at most one row is in the channel, and the producer holds
\* at most one more, stepped out of the driver and waiting in blocking_send:
\* at most two rows are produced and not yet consumed.
C14_OneBufferedOneHeld ==
    /\ Len(rowQ) <= RowChannelCap
    /\ Unconsumed <= RowChannelCap + 1

\* C14 witness: the first row of a result is in the channel, unconsumed, and
\* the producer has stepped the driver to the second row.
C14_Witness ==
    /\ rows.st = "open" /\ got = <<>>
    /\ Len(rowQ) = 1 /\ qPc = "send" /\ qItem # ErrItem

AbandonedExecuteStep ==
    /\ (connPc = "handle" /\ connCmd.op = "Execute" /\ ~connCmd.live /\ connPc' # "handle") =>
          /\ connPc' = "recv" /\ connRx'
          /\ conn' = conn
          /\ \/ driver' = driver
             \/ nextId' = nextId + 1 /\ db' = db \cup {nextId} /\ hist'[nextId] = "abandoned"
    /\ (txPc = "handle" /\ txCmd.op = "Execute" /\ ~txCmd.live /\ txPc' # "handle") =>
          /\ txPc' = "recv" /\ txRx' /\ inTx'
          /\ th' = th
          /\ \/ driver' = driver
             \/ nextId' = nextId + 1 /\ txw' = txw \cup {nextId} /\ hist'[nextId] = "active"

\* C15: the step that handles an Execute whose caller has given up runs the
\* statement as for any other Execute (the row it inserts is written), tells
\* the caller nothing, and puts the loop back at its blocking_recv with its
\* receiver alive.
C15_AbandonedExecuteRuns ==
    [][AbandonedExecuteStep]_vars

\* C15 witness: an abandoned Execute has written a row, and a later Execute
\* on the connection was served and answered.
C15_Witness ==
    \E i, j \in Ids : i < j /\ hist[i] = "abandoned" /\ hist[j] = "auto"

StatusIdStep ==
    /\ (/\ connPc = "handle" /\ connCmd.op = "Execute" /\ connPc' # "handle"
        /\ connCmd.live /\ conn'.res = "ok") =>
          conn'.lid = IF nextId' = nextId THEN None ELSE Some(nextId)
    /\ (/\ txPc = "handle" /\ txCmd.op = "Execute" /\ txPc' # "handle"
        /\ txCmd.live /\ th'.res = "ok") =>
          th'.lid = IF nextId' = nextId THEN None ELSE Some(nextId)

\* C18: the Status replied to a successful execute carries the new row's id
\* as last_insert_id when the statement inserted a row, and no last_insert_id
\* when it inserted none.
C18_LastInsertIdOnlyOnInsert ==
    [][StatusIdStep]_vars

\* C16: for a query that yields zero rows query_row returns none, for one
\* that yields exactly one row it returns the row, for one that yields more
\* it returns the error kind MultipleRowsReturned.
C16_QueryRowResult ==
    (rows.st = "open" /\ rows.last = "end" /\ ~qFail) =>
        query_row(got) = IF Len(got) = 0 THEN "Ok(None)"
                         ELSE IF Len(got) = 1 THEN "Ok(Some(row))"
                         ELSE "Err(MultipleRowsReturned)"

\* C17: the result of a query made through an open transaction is made of
\* the committed rows and of the rows the transaction has written and not
\* yet committed.
C17_QuerySeesOwnWrites ==
    (rows.st = "open" /\ inTx) => Range(qAll) = db \cup txw

\* C17 witness: the consumer of a query made in a transaction has received a
\* row the transaction wrote and has not committed.
C17_Witness ==
    /\ rows.st = "open" /\ inTx /\ outcome = "active"
    /\ \E i \in txw : i \in Range(got) /\ hist[i] = "active"

\* C19: the worker thread is never left, in the destruction of a
\* TransactionHandle, waiting for the reply to a Rollback that only its own
\* loop could send; whenever a handle was destroyed on the worker the driver
\* transaction is closed and the connection loop is receiving again.
C19_HandleDropNeverDeadlocks ==
    /\ txPc # "stuck"
    /\ th.st # "wdrop"

LiveIn(q) == \E k \in 1..Len(q) : q[k].live

NoReplyDroppedStep ==
    /\ (txRx /\ ~txRx') => ~LiveIn(txQ)
    /\ (connRx /\ ~connRx') => ~LiveIn(connQ)
    /\ (txCmd.live /\ txCmd' = NoCmd) => th'.st \in {"idle", "gone"} /\ th'.res # "none"
    /\ (connCmd.live /\ connCmd' = NoCmd) => conn'.st = "idle" /\ conn'.res # "none"

\* C20: no reply channel whose caller waits is closed without a value: a loop
\* drops its queue only when no waited-for command is in it, and a command it
\* has received from a waiting caller is let go only with its reply
\* delivered.
C20_EveryCommandReplied ==
    [][NoReplyDroppedStep]_vars

CommittedStaysStep ==
    /\ \A i \in Ids : hist[i] = "committed" => hist'[i] = "committed" /\ i \in db'
    /\ outcome = "committed" => outcome' # "rolledback"
    /\ (outcome = "committed" /\ nTx' = nTx) => driver' = driver \/ connPc = "handle"

\* C21: once a transaction has committed, the Rollback its handle's
\* destruction sends is never handled: a Rollback is handled only by the loop
\* of a transaction that is still active, the connection loop never holds
\* one, the outcome never turns to rolled back, and the committed rows stay
\* in the database; until another transaction begins the driver changes only
\* by the connection loop's own commands.
C21_NoRollbackAfterCommit ==
    /\ []((txPc = "handle" /\ txCmd.op = "Rollback") => outcome = "active")
    /\ [](connCmd.op # "Rollback" /\ \A k \in 1..Len(connQ) : connQ[k].op # "Rollback")
    /\ [][CommittedStaysStep]_vars

\* C21 witness: a transaction committed a row, its handle has been destroyed
\* (the Rollback was refused by the closed queue, or queued and dropped
\* with it), the loop has returned and the row is in the database.
C21_Witness ==
    /\ outcome = "committed" /\ th.req /\ th.st \in {"gone", "panic"}
    /\ txPc = "none" /\ connPc = "recv"
    /\ \E i \in Ids : hist[i] = "committed" /\ i \in db

\* The consumer has dropped the stream and the producer has not returned yet.
Abandoned == qPc # "none" /\ rows.st # "open"

\* The producer has returned and neither loop is left sitting at its
\* receive with a command waiting in its queue.
Resumed ==
    /\ qPc = "none"
    /\ ~(connPc = "recv" /\ connQ # <<>>)
    /\ ~(txPc = "recv" /\ txQ # <<>>)

StreamHoldsActorStep ==
    /\ qPc # "none" =>
          /\ recvSeq' = recvSeq /\ connCmd' = NoCmd /\ txCmd' = NoCmd
          /\ Len(connQ') >= Len(connQ) /\ Len(txQ') >= Len(txQ)
          /\ driver' = driver
    /\ Abandoned =>
          /\ rowQ' = rowQ
          /\ qPc = "send" => qPc' \in {"send", "none"}

\* C22: while a stream's producer runs, the loop that owns it is inside the
\* query and no command is received or handled by either loop.  Once the
\* consumer has dropped the stream the producer pushes nothing more, steps
\* the driver no further once it is at its push, and returns; a command that
\* waits in the owning loop's queue is then received.
C22_DroppedStreamFreesActor ==
    /\ [](qPc # "none" =>
            /\ (connPc = "in_query") # (txPc = "in_query")
            /\ connPc \in {"in_query", "in_tx"}
            /\ connCmd = NoCmd /\ txCmd = NoCmd)
    /\ [][StreamHoldsActorStep]_vars
    /\ Abandoned ~> Resumed

\* C22 witness: the consumer dropped the stream while the producer was
\* pushing the second row of the result, and the next command waits in the
\* connection queue.
C22_Witness ==
    /\ Abandoned /\ connPc = "in_query" /\ connQ # <<>>
    /\ qPc = "send" /\ qItem # ErrItem /\ \E i \in Visible : i < qItem

====
